---- MODULE Spec2Model ----
(***************************************************************************)
(* Model of src/licensedcode/pyahocorasick.py: a trie of item sequences    *)
(* (class Trie over class TrieNode) that make_automaton turns into an      *)
(* Aho-Corasick automaton and that search scans an input with.             *)
(*                                                                         *)
(* A node is named by the path of items along which add created it; the    *)
(* root is the empty path.  The four __slots__ of TrieNode are the four    *)
(* variables keyitem, value, fail and children, each a function over the   *)
(* nodes created so far.  An item content(i) is the pair <<content, i>>,   *)
(* so a character chr(i) and an integer int(i) stay different objects.     *)
(***************************************************************************)
EXTENDS Integers, Sequences, FiniteSets, TLC

\* ---- bounds of the model ------------------------------------------------
\* most nodes, the root not counted, a trie grows to, and most distinct
\* sequences given to add
MaxNodes == 2
\* longest input given to search
MaxInput == 3

\* the items_range values a Trie is constructed with
ItemsRanges == {2}
\* the content callables a Trie is constructed with
Contents == {"chr", "int"}
\* the payloads given to add: a falsy one and a truthy one
Values == {"0", "A"}
\* the default given to get
Defaults == {"D"}

VARIABLES
    items_range,   \* Trie.items_range
    content,       \* Trie.content: "chr" or "int"
    keyitem,       \* TrieNode.keyitem, per node
    value,         \* TrieNode.value, per node
    fail,          \* TrieNode.fail, per node
    children,      \* TrieNode.children, per node: a dict item -> node
    added,         \* history: sequence -> value of the latest add(sequence, value)
    phase,         \* history: "build" before make_automaton, "compiled" after
                   \* one make_automaton, "misused" once the build-compile-query
                   \* order was left (an add or a make_automaton after the first)
    hung,          \* a call is looping forever; the program makes no further step
    last           \* the latest call, the phase it was made in and its outcome;
                   \* for an add also what len and iteritems gave and what
                   \* was added before it

vars == <<items_range, content, keyitem, value, fail, children, added,
          phase, hung, last>>

\* ---- objects --------------------------------------------------------------
\* NIL = object(): the "no value" marker of TrieNode.value
NIL == "NIL"
\* the same NIL object where it stands in TrieNode.fail
NILREF == << <<"NIL", 0>> >>
\* Python's None as the root's keyitem
None == <<"None", 0>>
\* Python's None as the node __get_node returns
NoNode == << <<"None", 0>> >>
\* self.root
root == <<>>
\* an empty dict
EmptyDict == [k \in {} |-> root]

\* self.content(i) for content in (chr, int)
Content(c, i) == <<c, i>>

\* the declared universe: content(i) for i in range(items_range)
Universe == {Content(content, i) : i \in 0..(items_range - 1)}

\* d[k] = v on a dict (or on a per-node field) d
Put(d, k, v) == [x \in (DOMAIN d) \cup {k} |-> IF x = k THEN v ELSE d[x]]

\* the fields of all nodes as one record
Heap == [keyitem |-> keyitem, value |-> value, fail |-> fail, children |-> children]

\* TrieNode(keyitem) allocated under the name n
TrieNode(H, n, k) ==
    [keyitem  |-> Put(H.keyitem, n, k),
     value    |-> Put(H.value, n, NIL),
     fail     |-> Put(H.fail, n, NILREF),
     children |-> Put(H.children, n, EmptyDict)]

\* all sequences over S of length lo..hi
SeqsOf(S, lo, hi) == UNION {[1..n -> S] : n \in lo..hi}

\* ---- Trie.__get_node ------------------------------------------------------
RECURSIVE GetNodeFrom(_, _)
GetNodeFrom(node, seq) ==
    IF seq = <<>> THEN node
    ELSE IF Head(seq) \in DOMAIN children[node]
         THEN GetNodeFrom(children[node][Head(seq)], Tail(seq))
         ELSE NoNode

GetNode(seq) == GetNodeFrom(root, seq)

\* ---- Trie.get -------------------------------------------------------------
\* the outcome of a call: a returned value or a raised exception
Return(v) == [kind |-> "return", val |-> v]
Raise(e) == [kind |-> "raise", val |-> e]

\* A get that tests "if not value" where the code tests "value is NIL".
GetTruthy(seq, default) ==
    LET node == GetNode(seq)
        v == IF node # NoNode THEN value[node] ELSE NIL
    IN IF v \in {NIL, "0", "None"}
       THEN IF default = NIL THEN Raise("KeyError") ELSE Return(default)
       ELSE Return(v)

\* A get with the semantics of dict.get: None where the code raises KeyError.
GetLikeDict(seq, default) ==
    LET node == GetNode(seq)
        v == IF node # NoNode THEN value[node] ELSE NIL
    IN IF v = NIL
       THEN IF default = NIL THEN Return("None") ELSE Return(default)
       ELSE Return(v)

Get(seq, default) ==
    LET node == GetNode(seq)
        v == IF node # NoNode THEN value[node] ELSE NIL
    IN IF v = NIL
       THEN IF default = NIL THEN Raise("KeyError") ELSE Return(default)
       ELSE Return(v)

\* ---- Trie.exists, Trie.match ---------------------------------------------
Exists(seq) ==
    LET node == GetNode(seq)
    IN IF node # NoNode THEN value[node] # NIL ELSE FALSE

Match(seq) == GetNode(seq) # NoNode

\* ---- Trie.add -------------------------------------------------------------
RECURSIVE AddWalk(_, _, _)
AddWalk(H, node, seq) ==
    IF seq = <<>> THEN [heap |-> H, node |-> node]
    ELSE LET k == Head(seq)
         IN IF k \in DOMAIN H.children[node]
            THEN AddWalk(H, H.children[node][k], Tail(seq))
            ELSE LET n == Append(node, k)
                     H1 == TrieNode(H, n, k)
                     H2 == [H1 EXCEPT !.children[node] = Put(@, k, n)]
                 IN AddWalk(H2, n, Tail(seq))

\* An add without the "if not seq: return" guard: the empty sequence puts the
\* value on the root.
AddHeapNoGuard(H, seq, v) ==
    LET w == AddWalk(H, root, seq)
    IN [w.heap EXCEPT !.value[w.node] = v]

AddHeap(H, seq, v) ==
    IF seq = <<>> THEN H
    ELSE LET w == AddWalk(H, root, seq)
         IN [w.heap EXCEPT !.value[w.node] = v]

\* ---- iteration order of a dict ---------------------------------------------
\* The keys of dict d as a list.  CPython fixes the order per dict; the model
\* lists the keys by their index in the universe.
DictKeys(d) ==
    IF DOMAIN d = {} THEN <<>>
    ELSE LET hi == CHOOSE i \in {k[2] : k \in DOMAIN d} :
                       \A k \in DOMAIN d : k[2] <= i
             at(i) == {k \in DOMAIN d : k[2] = i}
             idx == SelectSeq([i \in 1..(hi + 1) |-> i - 1],
                              LAMBDA i : at(i) # {})
         IN [j \in 1..Len(idx) |-> CHOOSE k \in at(idx[j]) : TRUE]

\* d.values() as a list
DictValues(d) == LET ks == DictKeys(d) IN [i \in 1..Len(ks) |-> d[ks[i]]]

\* a call that never returns
Diverges == [kind |-> "diverges", val |-> "loop"]

\* Steps after which a walk over the nodes has come back to a node it already
\* left: a loop whose next step depends on the current node alone never ends
\* once it takes more steps than there are nodes.
Fuel(H) == Cardinality(DOMAIN H.keyitem) + 1

\* ---- Trie.__len__ ---------------------------------------------------------
RECURSIVE LenLoop(_, _, _)
LenLoop(stack, n, fuel) ==
    IF stack = <<>> THEN Return(n)
    ELSE IF fuel = 0 THEN Diverges
    ELSE LET node == stack[Len(stack)]
             rest == SubSeq(stack, 1, Len(stack) - 1)
             n1 == IF value[node] # NIL THEN n + 1 ELSE n
         IN LenLoop(rest \o DictValues(children[node]), n1, fuel - 1)

TrieLen == LenLoop(<<root>>, 0, Fuel(Heap))

\* ---- Trie.iteritems -------------------------------------------------------
\* list(keyitem): the characters of a str, TypeError on an int
ListOf(k) == IF k[1] = "chr" THEN Return(<<k>>) ELSE Raise("TypeError")

\* walk(node, s): s is a list, or None (written <<>> here: walk only tests
\* "if s", which None and [] fail alike).  L is the list of pairs so far.
RECURSIVE Walk(_, _, _), WalkChildren(_, _, _, _)
Walk(node, s, L) ==
    LET s1 == IF s # <<>>
              THEN LET l == ListOf(keyitem[node])
                   IN IF l.kind = "raise" THEN l ELSE Return(s \o l.val)
              ELSE IF keyitem[node] # None THEN Return(<<keyitem[node]>>)
                   ELSE Return(<<>>)
    IN IF s1.kind = "raise" THEN s1
       ELSE LET L1 == IF value[node] # NIL
                      THEN Append(L, <<s1.val, value[node]>>) ELSE L
            IN WalkChildren(node,
                            SelectSeq(DictValues(children[node]),
                                      LAMBDA child : child # node),
                            s1.val, L1)

\* for child in node.children.values(), the children other than node itself
WalkChildren(node, kids, s, L) ==
    IF kids = <<>> THEN Return(L)
    ELSE LET r == Walk(Head(kids), s, L)
         IN IF r.kind = "raise" THEN r
            ELSE WalkChildren(node, Tail(kids), s, r.val)

IterItems == Walk(root, <<>>, <<>>)

\* ---- Trie.make_automaton --------------------------------------------------
\* A make_automaton that forgets queue.append(node) in step 1, so that step 2
\* gives no node a fail link.
RootClosureNoQueue(H) ==
    LET kids == DOMAIN H.children[root]
        here == {H.children[root][k] : k \in kids \cap Universe}
    IN [heap |-> [H EXCEPT
                    !.fail = [n \in DOMAIN H.fail |->
                                 IF n \in here THEN root ELSE H.fail[n]],
                    !.children[root] =
                        [k \in kids \cup Universe |->
                            IF k \in kids THEN H.children[root][k] ELSE root]],
        queue |-> <<>>]

\* A make_automaton that also lets the root fail, to itself.
RootClosureSelfFail(H) ==
    LET kids == DOMAIN H.children[root]
        here == {H.children[root][k] : k \in kids \cap Universe}
        idx == SelectSeq([i \in 1..items_range |-> i - 1],
                         LAMBDA i : Content(content, i) \in kids)
    IN [heap |-> [H EXCEPT
                    !.fail = [n \in DOMAIN H.fail |->
                                 IF n \in here \cup {root} THEN root
                                 ELSE H.fail[n]],
                    !.children[root] =
                        [k \in kids \cup Universe |->
                            IF k \in kids THEN H.children[root][k] ELSE root]],
        queue |-> [j \in 1..Len(idx) |->
                      H.children[root][Content(content, idx[j])]]]

\* A make_automaton without the else branch of step 1: the root gets no
\* self-transition.
RootClosureNoSelf(H) ==
    LET kids == DOMAIN H.children[root]
        here == {H.children[root][k] : k \in kids \cap Universe}
        idx == SelectSeq([i \in 1..items_range |-> i - 1],
                         LAMBDA i : Content(content, i) \in kids)
    IN [heap |-> [H EXCEPT
                    !.fail = [n \in DOMAIN H.fail |->
                                 IF n \in here THEN root ELSE H.fail[n]]],
        queue |-> [j \in 1..Len(idx) |->
                      H.children[root][Content(content, idx[j])]]]

\* step 1: for i in range(self.items_range).  Each turn of the loop handles
\* another item, so the loop is written as its joint effect: a root child
\* of the universe fails to root and is queued, in the order of i; every
\* other item of the universe becomes a transition from root to root.
RootClosure(H) ==
    LET kids == DOMAIN H.children[root]
        here == {H.children[root][k] : k \in kids \cap Universe}
        idx == SelectSeq([i \in 1..items_range |-> i - 1],
                         LAMBDA i : Content(content, i) \in kids)
    IN [heap |-> [H EXCEPT
                    !.fail = [n \in DOMAIN H.fail |->
                                 IF n \in here THEN root ELSE H.fail[n]],
                    !.children[root] =
                        [k \in kids \cup Universe |->
                            IF k \in kids THEN H.children[root][k] ELSE root]],
        queue |-> [j \in 1..Len(idx) |->
                      H.children[root][Content(content, idx[j])]]]

\* A state-advance loop that falls back to the root at once where it should
\* follow the fail links.
FailStateNoHop(H, state, k, fuel) ==
    IF state = NILREF THEN Raise("AttributeError")
    ELSE IF k \in DOMAIN H.children[state]
    THEN [kind |-> "return", val |-> state, hops |-> 0]
    ELSE [kind |-> "return", val |-> root, hops |-> 1]

\* while keyitem not in state.children: state = state.fail
\* (NIL has no attribute children: AttributeError).  The loop returns the
\* state it stops at and hops, the number of times it ran its body.
RECURSIVE FailState(_, _, _, _)
FailState(H, state, k, fuel) ==
    IF state = NILREF THEN Raise("AttributeError")
    ELSE IF k \in DOMAIN H.children[state]
    THEN [kind |-> "return", val |-> state, hops |-> 0]
    ELSE IF fuel = 0 THEN Diverges
    ELSE LET r == FailState(H, H.fail[state], k, fuel - 1)
         IN IF r.kind = "return" THEN [r EXCEPT !.hops = @ + 1] ELSE r

\* state.children.get(keyitem, self.root)
ChildOrRoot(H, state, k) ==
    IF k \in DOMAIN H.children[state] THEN H.children[state][k] ELSE root

\* A make_automaton that lets every node fail to the root.
FailLinkToRoot(H, current, node) == Return(root)

\* A make_automaton that starts the walk at current where the code starts
\* it at current.fail.
FailLinkFromCurrent(H, current, node) ==
    LET st == FailState(H, current, H.keyitem[node], Fuel(H))
    IN IF st.kind = "return"
       THEN Return(ChildOrRoot(H, st.val, H.keyitem[node]))
       ELSE st

\* the fail link make_automaton gives node, a child of current
FailLink(H, current, node) ==
    LET st == FailState(H, H.fail[current], H.keyitem[node], Fuel(H))
    IN IF st.kind = "return"
       THEN Return(ChildOrRoot(H, st.val, H.keyitem[node]))
       ELSE st

\* step 2: while queue; kids are the children of current still to visit
RECURSIVE LinkLoop(_, _, _, _, _)
LinkLoop(H, queue, current, kids, fuel) ==
    IF kids # <<>>
    THEN LET node == Head(kids)
             f == FailLink(H, current, node)
         IN IF f.kind # "return" THEN [kind |-> f.kind, heap |-> H]
            ELSE LinkLoop([H EXCEPT !.fail[node] = f.val], Append(queue, node),
                          current, Tail(kids), fuel)
    ELSE IF queue = <<>> THEN [kind |-> "return", heap |-> H]
    ELSE IF fuel = 0 THEN [kind |-> "diverges", heap |-> H]
    ELSE LinkLoop(H, Tail(queue), Head(queue),
                  DictValues(H.children[Head(queue)]), fuel - 1)

MakeAutomatonHeap(H) ==
    LET c == RootClosure(H)
    IN LinkLoop(c.heap, c.queue, root, <<>>, Fuel(H) + items_range)

\* ---- Trie.search ----------------------------------------------------------
\* the value-collection walk: while tmp is not NIL.  It returns the list
\* value and seen, the nodes tmp was in turn.
RECURSIVE Collect(_, _, _, _)
Collect(tmp, vals, seen, fuel) ==
    IF tmp = NILREF THEN [kind |-> "return", val |-> vals, seen |-> seen]
    ELSE IF fuel = 0 THEN Diverges
    ELSE Collect(fail[tmp],
                 IF value[tmp] # NIL THEN Append(vals, value[tmp]) ELSE vals,
                 Append(seen, tmp), fuel - 1)

\* A collection that takes the value of the new state and does not walk
\* the fail links.
CollectOwn(state) ==
    [kind |-> "return",
     val |-> IF value[state] # NIL THEN <<value[state]>> ELSE <<>>,
     seen |-> <<state>>]

\* A collection that ends its walk on reaching the root: while tmp is not
\* self.root.
RECURSIVE CollectUntilRoot(_, _, _, _)
CollectUntilRoot(tmp, vals, seen, fuel) ==
    IF tmp = NILREF \/ tmp = root
    THEN [kind |-> "return", val |-> vals, seen |-> seen]
    ELSE IF fuel = 0 THEN Diverges
    ELSE CollectUntilRoot(fail[tmp],
                 IF value[tmp] # NIL THEN Append(vals, value[tmp]) ELSE vals,
                 Append(seen, tmp), fuel - 1)

CollectBelowRoot(state) == CollectUntilRoot(state, <<>>, <<>>, Fuel(Heap))

\* value = [] ... while tmp is not NIL, from tmp = state
CollectFrom(state) == Collect(state, <<>>, <<>>, Fuel(Heap))

\* for index, keyitem in enumerate(seq): the entries yielded so far are out;
\* tr is the trace of the loops: stops lists, per position done, the state
\* the first while loop stopped at, hops counts the times that loop ran its
\* body and walks lists, per position done, the nodes the second while loop
\* visited.
RECURSIVE SearchLoop(_, _, _, _, _)
SearchLoop(state, seq, index, out, tr) ==
    IF index >= Len(seq)
    THEN [entries |-> out, end |-> "StopIteration", stops |-> tr.stops,
          hops |-> tr.hops, walks |-> tr.walks]
    ELSE LET k == seq[index + 1]
             st == FailState(Heap, state, k, Fuel(Heap))
         IN IF st.kind # "return"
            THEN [entries |-> out,
                  end |-> IF st.kind = "raise" THEN st.val ELSE "diverges",
                  stops |-> tr.stops, hops |-> tr.hops, walks |-> tr.walks]
            ELSE LET next == ChildOrRoot(Heap, st.val, k)
                     c == CollectFrom(next)
                 IN IF c.kind = "diverges"
                    THEN [entries |-> out, end |-> "diverges",
                          stops |-> Append(tr.stops, st.val),
                          hops |-> tr.hops + st.hops, walks |-> tr.walks]
                    ELSE SearchLoop(next, seq, index + 1,
                                    IF c.val # <<>>
                                    THEN Append(out, <<index, c.val>>)
                                    ELSE out,
                                    [stops |-> Append(tr.stops, st.val),
                                     hops |-> tr.hops + st.hops,
                                     walks |-> Append(tr.walks, c.seen)])

\* list(trie.search(seq)) together with how the generator ended
Search(seq) ==
    SearchLoop(root, seq, 0, <<>>, [stops |-> <<>>, hops |-> 0, walks |-> <<>>])

\* ---- the calls a program makes on one Trie --------------------------------
\* the sequences given to add, get, exists and match
Keys == SeqsOf(Universe, 0, MaxNodes)
\* the inputs given to search
Inputs == SeqsOf(Universe, 0, MaxInput)

\* history kept with an add: len(trie), list(trie.iteritems()) and the added
\* sequences as they were when the add was called
Snapshot == [len |-> TrieLen, items |-> IterItems, had |-> DOMAIN added]

\* the calls other than add keep none
NoSnapshot == [len |-> Return(0), items |-> Return(<<>>), had |-> {}]

Call(op, seq, arg, out) ==
    [op |-> op, seq |-> seq, arg |-> arg, out |-> out,
     was |-> IF op = "none" THEN "build" ELSE phase,
     pre |-> IF op = "add" THEN Snapshot ELSE NoSnapshot]

\* no call is under way: the caller has taken the outcome of the latest one
Idle == Call("none", <<>>, NIL, Return("None"))

\* Trie(items_range, content)
Init ==
    /\ items_range \in ItemsRanges
    /\ content \in Contents
    /\ keyitem = [n \in {root} |-> None]
    /\ value = [n \in {root} |-> NIL]
    /\ fail = [n \in {root} |-> NILREF]
    /\ children = [n \in {root} |-> EmptyDict]
    /\ added = EmptyDict
    /\ phase = "build"
    /\ hung = FALSE
    /\ last = Idle

\* the bound on add: the trie and the history stay within MaxNodes
Fits(seq) ==
    /\ seq = <<>> \/ seq \in DOMAIN added \/ Cardinality(DOMAIN added) < MaxNodes
    /\ Cardinality(DOMAIN AddHeap(Heap, seq, NIL).keyitem) <= MaxNodes + 1

\* trie.add(seq, v)
AddCall(seq, v) ==
    /\ last.op = "none"
    /\ LET H == AddHeap(Heap, seq, v)
       IN /\ keyitem' = H.keyitem
          /\ value' = H.value
          /\ fail' = H.fail
          /\ children' = H.children
    /\ added' = IF seq = <<>> THEN added ELSE Put(added, seq, v)
    /\ phase' = IF phase = "build" \/ seq = <<>> THEN phase ELSE "misused"
    /\ last' = Call("add", seq, v, Return("None"))
    /\ UNCHANGED <<items_range, content, hung>>

\* a call that reads the trie and assigns nothing
Query(op, seq, arg, out) ==
    /\ last.op = "none"
    /\ last' = Call(op, seq, arg, out)
    /\ UNCHANGED <<items_range, content, keyitem, value, fail, children,
                   added, phase, hung>>

\* trie.get(seq) and trie.get(seq, default)
GetCall(seq, default) == Query("get", seq, default, Get(seq, default))

\* trie.exists(seq)
ExistsCall(seq) == Query("exists", seq, NIL, Return(Exists(seq)))

\* trie.match(seq)
MatchCall(seq) == Query("match", seq, NIL, Return(Match(seq)))

\* list(trie.iteritems())
IterItemsCall == Query("iteritems", <<>>, NIL, IterItems)

\* len(trie)
LenCall ==
    /\ last.op = "none"
    /\ last' = Call("len", <<>>, NIL, TrieLen)
    /\ hung' = (TrieLen.kind = "diverges")
    /\ UNCHANGED <<items_range, content, keyitem, value, fail, children,
                   added, phase>>

\* list(trie.search(seq))
SearchCall(seq) ==
    /\ last.op = "none"
    /\ last' = Call("search", seq, NIL, Search(seq))
    /\ hung' = (Search(seq).end = "diverges")
    /\ UNCHANGED <<items_range, content, keyitem, value, fail, children,
                   added, phase>>

\* trie.make_automaton()
MakeAutomaton ==
    /\ last.op = "none"
    /\ LET r == MakeAutomatonHeap(Heap)
       IN /\ keyitem' = r.heap.keyitem
          /\ value' = r.heap.value
          /\ fail' = r.heap.fail
          /\ children' = r.heap.children
          /\ hung' = (r.kind = "diverges")
          /\ last' = Call("make_automaton", <<>>, NIL,
                          IF r.kind = "return" THEN Return("None")
                          ELSE IF r.kind = "raise" THEN Raise("AttributeError")
                          ELSE Diverges)
    /\ phase' = IF phase = "build" THEN "compiled" ELSE "misused"
    /\ UNCHANGED <<items_range, content, added>>

\* The call has returned or raised and the caller, which is sequential, takes
\* its outcome before it makes the next call.  A call that loops forever
\* never gets here.
TakeOutcome ==
    /\ last.op # "none"
    /\ ~hung
    /\ last' = Idle
    /\ UNCHANGED <<items_range, content, keyitem, value, fail, children,
                   added, phase, hung>>

Next ==
    \/ \E seq \in Keys, v \in Values : Fits(seq) /\ AddCall(seq, v)
    \/ \E seq \in Keys, d \in Defaults \cup {NIL} : GetCall(seq, d)
    \/ \E seq \in Keys : ExistsCall(seq)
    \/ \E seq \in Keys : MatchCall(seq)
    \/ IterItemsCall
    \/ LenCall
    \/ MakeAutomaton
    \/ \E seq \in Inputs : SearchCall(seq)
    \/ TakeOutcome

Spec == Init /\ [][Next]_vars

\* The callers that keep the order make_automaton's contract asks for: every
\* add, then one make_automaton, then queries.  Queries are made in both phases.
OrderedNext ==
    \/ \E seq \in Keys, v \in Values :
           phase = "build" /\ Fits(seq) /\ AddCall(seq, v)
    \/ \E seq \in Keys, d \in Defaults \cup {NIL} : GetCall(seq, d)
    \/ \E seq \in Keys : ExistsCall(seq)
    \/ \E seq \in Keys : MatchCall(seq)
    \/ IterItemsCall
    \/ LenCall
    \/ phase = "build" /\ MakeAutomaton
    \/ \E seq \in Inputs : SearchCall(seq)
    \/ TakeOutcome

OrderedSpec == Init /\ [][OrderedNext]_vars

\* ---- the "ushers" example --------------------------------------------------
\* Trie() as constructed by default: items_range=256, content=chr
DefaultItemsRange == 256

\* the str of the characters with the given codes
Str(codes) == [i \in 1..Len(codes) |-> Content("chr", codes[i])]

he == Str(<<104, 101>>)
she == Str(<<115, 104, 101>>)
hers == Str(<<104, 101, 114, 115>>)
ushers == Str(<<117, 115, 104, 101, 114, 115>>)

UshersKeys == {he, she, hers}
UshersValues == {"A", "B", "C"}
\* search is given every slice of "ushers"
UshersInputs == {SubSeq(ushers, i, j) : i \in 1..7, j \in 0..6}

UshersInit ==
    /\ items_range = DefaultItemsRange
    /\ content = "chr"
    /\ keyitem = [n \in {root} |-> None]
    /\ value = [n \in {root} |-> NIL]
    /\ fail = [n \in {root} |-> NILREF]
    /\ children = [n \in {root} |-> EmptyDict]
    /\ added = EmptyDict
    /\ phase = "build"
    /\ hung = FALSE
    /\ last = Idle

UshersNext ==
    \/ \E seq \in UshersKeys, v \in UshersValues :
           phase = "build" /\ AddCall(seq, v)
    \/ phase = "build" /\ MakeAutomaton
    \/ \E seq \in UshersInputs : SearchCall(seq)
    \/ TakeOutcome

UshersSpec == UshersInit /\ [][UshersNext]_vars

\* ---- what the calls are measured against ------------------------------------
\* s is a suffix of t
IsSuffix(s, t) ==
    /\ Len(s) <= Len(t)
    /\ SubSeq(t, Len(t) - Len(s) + 1, Len(t)) = s

\* the first i + 1 items of seq: seq[0..i] for the 0-based position i
UpTo(seq, i) == SubSeq(seq, 1, i + 1)

\* the last n items of t
LastItems(t, n) == SubSeq(t, Len(t) - n + 1, Len(t))

\* the added sequences that end at position i of seq
EndingAt(seq, i) == {s \in DOMAIN added : IsSuffix(s, UpTo(seq, i))}

\* their values, from the longest sequence to the shortest
ValuesEndingAt(seq, i) ==
    LET lens == SelectSeq([j \in 1..(i + 1) |-> i + 2 - j],
                          LAMBDA n : LastItems(UpTo(seq, i), n) \in DOMAIN added)
    IN [j \in 1..Len(lens) |-> added[LastItems(UpTo(seq, i), lens[j])]]

\* the positions of the entries a search yielded, in the order yielded
Positions(out) == [e \in 1..Len(out.entries) |-> out.entries[e][1]]

\* a search was made on an automaton compiled once after every add
SearchedCompiled == phase = "compiled" /\ last.op = "search"

\* C1: after adds and exactly one make_automaton, search(seq) ends normally
\* and yields an entry for position i exactly when some added sequence is a
\* suffix of seq[0..i]; positions come strictly increasing, so at most one
\* entry per position.
C1_SearchYieldsExactlySuffixMatches ==
    SearchedCompiled =>
        LET pos == Positions(last.out)
        IN /\ last.out.end = "StopIteration"
           /\ \A i \in 0..(Len(last.seq) - 1) :
                  (\E e \in 1..Len(pos) : pos[e] = i)
                      <=> EndingAt(last.seq, i) # {}
           /\ \A e \in 1..Len(pos) : pos[e] \in 0..(Len(last.seq) - 1)
           /\ \A e \in 1..(Len(pos) - 1) : pos[e] < pos[e + 1]

\* C1 witness: a search on a compiled automaton that yielded an entry at one
\* position and none at another.
C1_Witness ==
    /\ SearchedCompiled
    /\ Len(last.out.entries) >= 1
    /\ Len(last.out.entries) < Len(last.seq)

\* C2: on a compiled automaton the value list yielded at position i is the
\* values of all added sequences ending at i, each once, longest sequence
\* first; and search(s) for an added s yields its last entry at the last
\* position of s, with the value of s in the list.
C2_ValueListLongestFirst ==
    SearchedCompiled =>
        /\ \A e \in 1..Len(last.out.entries) :
               last.out.entries[e][2]
                   = ValuesEndingAt(last.seq, last.out.entries[e][1])
        /\ last.seq \in DOMAIN added =>
               /\ last.out.entries # <<>>
               /\ LET final == last.out.entries[Len(last.out.entries)]
                  IN /\ final[1] = Len(last.seq) - 1
                     /\ \E j \in 1..Len(final[2]) :
                            final[2][j] = added[last.seq]

\* C2 witness: an entry that holds the values of two added sequences, which
\* differ, the longer sequence's value first.
C2_Witness ==
    /\ SearchedCompiled
    /\ \E e \in 1..Len(last.out.entries) :
           /\ Len(last.out.entries[e][2]) = 2
           /\ last.out.entries[e][2][1] # last.out.entries[e][2][2]
           /\ Cardinality(EndingAt(last.seq, last.out.entries[e][1])) = 2

\* exactly "he"->A, "she"->B and "hers"->C were added, the trie was compiled
\* and the search of "ushers" has been made
UshersSearched ==
    /\ SearchedCompiled
    /\ DOMAIN added = UshersKeys
    /\ added[he] = "A"
    /\ added[she] = "B"
    /\ added[hers] = "C"
    /\ last.seq = ushers

\* the value lists search yielded for position i
ListsAt(i) ==
    {last.out.entries[e][2] :
        e \in {x \in 1..Len(last.out.entries) : last.out.entries[x][1] = i}}

\* C3: with "he"->A, "she"->B, "hers"->C compiled, search("ushers") yields
\* an entry at index 3, where "she" ends, whose list contains A and B.
C3_UshersSheAndHe ==
    UshersSearched =>
        \E l \in ListsAt(3) :
            /\ \E j \in 1..Len(l) : l[j] = "A"
            /\ \E j \in 1..Len(l) : l[j] = "B"

\* C3 witness: the search of "ushers" was made and yielded <<B, A>> at 3.
C3_Witness == UshersSearched /\ <<"B", "A">> \in ListsAt(3)

\* C4 as claimed: search("ushers") yields no entry at index 5, the final 's'.
C4_UshersNoEntryAtFinalS == UshersSearched => ListsAt(5) = {}

\* C4 as amended: search("ushers") yields one entry at index 5, the final
\* 's', where "hers" ends, and its list is the value C alone.
C4_UshersHersAtFinalS == UshersSearched => ListsAt(5) = {<<"C">>}

\* C4 witness: the search of "ushers" was made, ended normally and its last
\* entry is at index 5.
C4_Witness ==
    /\ UshersSearched
    /\ last.out.end = "StopIteration"
    /\ last.out.entries[Len(last.out.entries)][1] = 5

\* two outcomes are the same: both return the same value or both raise the
\* same exception
SameOutcome(x, y) == x.kind = y.kind /\ x.val = y.val

\* C5: before compilation get(s), with or without a default, returns the
\* value of the latest add(s, .) for every added sequence s, falsy values
\* included, whatever other sequences were added before or after.
C5_GetReturnsLatestAdd ==
    phase = "build" =>
        /\ \A s \in DOMAIN added, d \in Defaults \cup {NIL} :
               /\ Get(s, d).kind = "return"
               /\ Get(s, d).val = added[s]
        /\ (last.op = "get" /\ last.seq \in DOMAIN added) =>
               /\ last.out.kind = "return"
               /\ last.out.val = added[last.seq]

\* C5 witness: get(s) returned the falsy value 0 of an added s of which an
\* extension was added too.
C5_Witness ==
    /\ phase = "build"
    /\ last.op = "get"
    /\ last.seq \in DOMAIN added
    /\ last.out.val = "0"
    /\ \E t \in DOMAIN added :
           Len(t) > Len(last.seq) /\ SubSeq(t, 1, Len(last.seq)) = last.seq

\* an add was made before compilation
AddMade == phase = "build" /\ last.op = "add"

\* the add just made gave a sequence that was not added before
AddedNew == last.seq # <<>> /\ last.seq \notin last.pre.had

\* C6 as claimed: before compilation len(trie) is the number of distinct
\* non-empty sequences added; an add of a new sequence raises it by one; an
\* add of an added sequence, with any value, or of the empty sequence leaves
\* len(trie) and the output of iteritems as they were.
C6_ReAddChangesNothing ==
    AddMade =>
        /\ TrieLen.kind = "return"
        /\ TrieLen.val = Cardinality(DOMAIN added)
        /\ IF AddedNew
           THEN TrieLen.val = last.pre.len.val + 1
           ELSE /\ TrieLen.val = last.pre.len.val
                /\ SameOutcome(IterItems, last.pre.items)

\* the list of pairs L with the value of key s replaced by v
WithValue(L, s, v) ==
    [j \in 1..Len(L) |-> IF L[j][1] = s THEN <<s, v>> ELSE L[j]]

\* C6 as amended: the same, but an add of an added sequence leaves len(trie)
\* as it was and changes the output of iteritems in the value of that
\* sequence's pair alone, which becomes the value given (so nothing changes
\* when the value is the one it had); an add of the empty sequence leaves
\* both as they were.
C6_ReAddChangesValueOnly ==
    AddMade =>
        /\ TrieLen.kind = "return"
        /\ TrieLen.val = Cardinality(DOMAIN added)
        /\ IF AddedNew
           THEN TrieLen.val = last.pre.len.val + 1
           ELSE /\ TrieLen.val = last.pre.len.val
                /\ IterItems.kind = last.pre.items.kind
                /\ IterItems.val =
                       IF IterItems.kind = "return"
                       THEN WithValue(last.pre.items.val, last.seq, last.arg)
                       ELSE last.pre.items.val

\* C6 witness: an added sequence was added again with another value on a
\* trie of two sequences: iteritems gives another list than before, of the
\* same length, and len(trie) is two as before.
C6_Witness ==
    /\ AddMade
    /\ last.seq \in last.pre.had
    /\ IterItems.kind = "return"
    /\ IterItems.val # last.pre.items.val
    /\ Len(IterItems.val) = Len(last.pre.items.val)
    /\ TrieLen.val = 2
    /\ last.pre.len.val = 2

\* C7: before compilation get(seq) raises KeyError exactly when seq was not
\* added (the empty sequence never is), get(seq, d) returns d exactly then,
\* an added sequence gives its value, and the call leaves every node as it
\* was.
C7_GetMissingKey ==
    [][(phase = "build" /\ last.op = "none" /\ last'.op = "get") =>
          /\ last'.out.kind = "raise"
                 <=> (last'.seq \notin DOMAIN added /\ last'.arg = NIL)
          /\ last'.out.kind = "raise" => last'.out.val = "KeyError"
          /\ (last'.seq \notin DOMAIN added /\ last'.arg # NIL)
                 => last'.out.val = last'.arg
          /\ last'.seq \in DOMAIN added => last'.out.val = added[last'.seq]
          /\ UNCHANGED <<keyitem, value, fail, children>>]_vars

\* C7 witness: get(seq) raised KeyError for a non-empty seq whose path is in
\* the trie and ends on a node without a value.
C7_Witness ==
    /\ phase = "build"
    /\ last.op = "get"
    /\ last.out.kind = "raise"
    /\ last.seq # <<>>
    /\ GetNode(last.seq) # NoNode

\* C8 as claimed: after adds, and after a make_automaton that followed them,
\* iteritems ends and yields one pair (sequence, value) for each added
\* sequence and nothing else.
C8_IterItemsYieldsAdded ==
    (phase \in {"build", "compiled"} /\ last.op = "iteritems") =>
        /\ last.out.kind = "return"
        /\ Len(last.out.val) = Cardinality(DOMAIN added)
        /\ {last.out.val[j] : j \in 1..Len(last.out.val)}
               = {<<s, added[s]>> : s \in DOMAIN added}

\* C9 as claimed: the first make_automaton changes the outcome of no get,
\* exists or match.
C9_MakeAutomatonKeepsLookups ==
    [][(phase = "build" /\ phase' = "compiled") =>
          \A seq \in Keys :
              /\ Match(seq)' = Match(seq)
              /\ Exists(seq)' = Exists(seq)
              /\ \A d \in Defaults \cup {NIL} :
                     SameOutcome(Get(seq, d)', Get(seq, d))]_vars

\* C10 as claimed: a search made before any make_automaton yields no entry,
\* and on a non-empty input it ends in a failure.
C10_SearchBeforeCompileFails ==
    (phase = "build" /\ last.op = "search") =>
        /\ last.out.entries = <<>>
        /\ last.seq # <<>> => last.out.end # "StopIteration"

\* ---- calls made out of the order of the contract ----------------------------
\* the entries an exact search of seq yields for the sequences added so far:
\* one per position where an added sequence ends, with their values from the
\* longest sequence to the shortest
ExactEntries(seq) ==
    LET at == SelectSeq([i \in 1..Len(seq) |-> i - 1],
                        LAMBDA i : ValuesEndingAt(seq, i) # <<>>)
    IN [j \in 1..Len(at) |-> <<at[j], ValuesEndingAt(seq, at[j])>>]

\* search(seq) ends normally with the exact entries
SearchExact(seq) ==
    /\ Search(seq).end = "StopIteration"
    /\ Search(seq).entries = ExactEntries(seq)

\* an add of a non-empty sequence was made on a trie compiled once
AddAfterCompile == last.op = "add" /\ last.was = "compiled" /\ last.seq # <<>>

\* C11 as claimed: an add(seq, value) made after make_automaton is rejected,
\* or else (the trie keeps no mark that asks for a recompile) it puts the
\* value on the node whose path is seq and every later search is exact for
\* the sequences added, not one run on stale fail links.
C11_AddAfterCompileRejectedOrExact ==
    AddAfterCompile =>
        \/ last.out.kind = "raise"
        \/ /\ last.seq \in DOMAIN value
           /\ value[last.seq] = last.arg
           /\ \A s \in Inputs : SearchExact(s)

\* C12 as claimed: a make_automaton on a trie compiled once is rejected, or
\* it returns and leaves every fail link and the outcome of every search as
\* they were after the first call.
C12_SecondMakeAutomatonRecompiles ==
    [][(phase = "compiled" /\ last'.op = "make_automaton") =>
          \/ last'.out.kind = "raise"
          \/ /\ last'.out.kind = "return"
             /\ fail' = fail
             /\ \A s \in Inputs : Search(s)' = Search(s)]_vars

\* ---- the fail links ----------------------------------------------------------
\* the nodes of the trie; a node is named by its path
Nodes == DOMAIN keyitem

\* the adds were made and then one make_automaton, which returned
CompiledOnce == phase = "compiled" /\ ~hung

\* the longest proper suffix of the path n that is the path of a node; the
\* empty path, the root, when no longer one is
LongestProperSuffix(n) ==
    LET lens == {k \in 0..(Len(n) - 1) : LastItems(n, k) \in Nodes}
    IN LastItems(n, CHOOSE k \in lens : \A j \in lens : j <= k)

\* C13: after adds and one make_automaton the fail link of every node n
\* other than the root is the node of the longest proper suffix of n's path
\* that is a path of the trie, the root when none but the empty one is; so
\* every child of the root fails to the root.
C13_FailIsLongestProperSuffix ==
    CompiledOnce =>
        /\ \A n \in Nodes \ {root} : fail[n] = LongestProperSuffix(n)
        /\ \A n \in Nodes : Len(n) = 1 => fail[n] = root

\* C13 witness: a compiled trie with a node that fails to a node other than
\* the root and a node deeper than the root's children that fails to the root.
C13_Witness ==
    /\ CompiledOnce
    /\ \E n \in Nodes \ {root} : fail[n] # root /\ fail[n] # NILREF
    /\ last.op = "make_automaton"

\* C14 as claimed: before make_automaton no node has a fail link; after it
\* every node, the root too, has a node as its fail link.
C14_EveryNodeFails ==
    /\ phase = "build" => \A n \in Nodes : fail[n] = NILREF
    /\ CompiledOnce => \A n \in Nodes : fail[n] \in Nodes

\* C14 as amended: before make_automaton no node has a fail link; after it
\* every node other than the root has a node as its fail link and the root
\* still has none.
C14_EveryNodeButRootFails ==
    /\ phase = "build" => \A n \in Nodes : fail[n] = NILREF
    /\ CompiledOnce =>
           /\ \A n \in Nodes \ {root} : fail[n] \in Nodes
           /\ fail[root] = NILREF

\* C14 witness: make_automaton has returned on a trie of the root and two
\* more nodes.
C14_Witness ==
    /\ CompiledOnce
    /\ last.op = "make_automaton"
    /\ last.out.kind = "return"
    /\ Cardinality(Nodes) = 3

\* ---- the shape of the trie ---------------------------------------------------
\* the sequences of items that lead from the root to node n through children
SequencesTo(n) == {s \in Keys : GetNode(s) = n}

\* C15 as claimed: in every state, before and after make_automaton, every
\* node other than the root is reached from the root through children by
\* exactly one sequence of items, the path the node stands for.
C15_OneSequencePerNode ==
    (phase \in {"build", "compiled"} /\ ~hung) =>
        \A n \in Nodes \ {root} : SequencesTo(n) = {n}

\* the nodes that hold a value
Valued == {n \in Nodes : value[n] # NIL}

\* C16 as claimed: in every state, also after make_automaton gave the root
\* its self-transitions, len(trie) returns, and returns the number of nodes
\* that hold a value.
C16_LenCountsValuedNodes ==
    (phase \in {"build", "compiled"} /\ last.op = "len") =>
        /\ last.out.kind = "return"
        /\ last.out.val = Cardinality(Valued)

\* ---- the work of search -------------------------------------------------------
\* C17: on a trie compiled once, search of any input over the universe ends
\* normally; at every position its first loop stops at a node that has a
\* transition for the item there, and over the whole input that loop moves
\* along a fail link at most as many times as the input has items.
C17_SearchAdvanceIsBounded ==
    SearchedCompiled =>
        /\ last.out.end = "StopIteration"
        /\ Len(last.out.stops) = Len(last.seq)
        /\ \A i \in 1..Len(last.seq) :
               /\ last.out.stops[i] \in Nodes
               /\ last.seq[i] \in DOMAIN children[last.out.stops[i]]
        /\ last.out.hops <= Len(last.seq)

\* C17 witness: a search on a compiled trie whose first loop moved along
\* two fail links at one position and stopped at the root.
C17_Witness ==
    /\ SearchedCompiled
    /\ last.out.end = "StopIteration"
    /\ last.out.hops >= 2
    /\ \E i \in 1..Len(last.out.stops) : last.out.stops[i] = root

\* the nodes whose path is a suffix of seq[0..i], from the longest path to
\* the shortest, which is the root
SuffixNodes(seq, i) ==
    LET lens == SelectSeq([j \in 1..(i + 2) |-> i + 2 - j],
                          LAMBDA n : LastItems(UpTo(seq, i), n) \in Nodes)
    IN [j \in 1..Len(lens) |-> LastItems(UpTo(seq, i), lens[j])]

\* C18 as claimed: in a search on a compiled trie every node the
\* value-collection walk visits at a position holds a value.
C18_WalkVisitsValuedNodesOnly ==
    SearchedCompiled =>
        \A i \in 1..Len(last.out.walks) :
            \A j \in 1..Len(last.out.walks[i]) :
                value[last.out.walks[i][j]] # NIL

\* C18 as amended: in a search on a compiled trie the value-collection walk
\* at position i visits the nodes whose path is a suffix of seq[0..i], each
\* once, from the longest path to the root, whether they hold a value or
\* not; the root, which holds none, is the last node of every walk.
C18_WalkVisitsSuffixNodes ==
    SearchedCompiled =>
        /\ Len(last.out.walks) = Len(last.seq)
        /\ \A i \in 1..Len(last.out.walks) :
               /\ last.out.walks[i] = SuffixNodes(last.seq, i - 1)
               /\ last.out.walks[i][Len(last.out.walks[i])] = root
               /\ value[root] = NIL

\* C18 witness: a walk visited, between a node that holds a value and the
\* root, a node that holds none.
C18_Witness ==
    /\ SearchedCompiled
    /\ \E i \in 1..Len(last.out.walks) :
           /\ Len(last.out.walks[i]) = 3
           /\ value[last.out.walks[i][1]] # NIL
           /\ value[last.out.walks[i][2]] = NIL

\* C19 as claimed: whatever adds and make_automaton calls were made, in
\* whatever order, adds after make_automaton too, the root holds no value
\* (so that no search collects one from the root at every position).
C19_RootHoldsNoValue == value[root] = NIL

\* the number of fail links from node n to the root, or more than fuel when
\* the root is not reached within fuel links
RECURSIVE FailChain(_, _)
FailChain(n, fuel) ==
    IF n = root THEN 0
    ELSE IF fuel = 0 \/ n = NILREF THEN 1
    ELSE 1 + FailChain(fail[n], fuel - 1)

\* C20: after adds and one make_automaton the fail link of every node other
\* than the root is a node of smaller depth, so the fail links from a node
\* of depth d reach the root within d links and form no cycle; and the
\* value-collection walk of a search from a state of depth d visits at most
\* d + 1 nodes.
C20_FailLinksGoUp ==
    CompiledOnce =>
        /\ \A n \in Nodes \ {root} :
               /\ fail[n] \in Nodes
               /\ Len(fail[n]) < Len(n)
               /\ FailChain(n, Len(n)) <= Len(n)
        /\ last.op = "search" =>
               /\ last.out.end # "diverges"
               /\ \A i \in 1..Len(last.out.walks) :
                      Len(last.out.walks[i]) <= Len(last.out.walks[i][1]) + 1

\* C20 witness: a compiled trie with a node of depth 2 that fails to a node
\* of depth 1, and a search that walked from it.
C20_Witness ==
    /\ CompiledOnce
    /\ last.op = "search"
    /\ \E n \in Nodes : Len(n) = 2 /\ Len(fail[n]) = 1
                          /\ \E i \in 1..Len(last.out.walks) :
                                 last.out.walks[i][1] = n

====
